---- MODULE Spec2Model ----
\* Model of the isucon13 benchmarker's `run` command (bench/cmd/bench/bench.go):
\* the phase sequence Initialize -> Pretest -> Benchmark -> Finalcheck -> Report,
\* the result records it emits, and the pure helper uniqueMsgs.
\*
\* The packages benchscore (CounterRegistry), bencherror (ErrorAggregator),
\* scenario (Pretest / FinalcheckScenario) and the benchmarker worker pool are
\* called by bench.go but their code is not part of the sources at hand; their
\* behaviour is modelled from the design document and marked so in MODEL_MAP.json.
\* Message texts are ASCII renderings of the Japanese literals in the source.
EXTENDS Integers, Sequences, FiniteSets, TLC

\* ---------------------------------------------------------------- bounds
\* longest message list handed to uniqueMsgs in the function-level check
MaxLen == 5
\* number of Benchmark workers
NumWorkers == 2
\* total scenario iterations the workers may start in one Benchmark phase
MaxRuns == 3
\* concurrent callers of Increment (N) and the calls each makes (M)
IncCallers == 3
IncPerCaller == 4
\* number of critical errors that sets the disqualification flag
CriticalThreshold == 2
\* errors handed to the aggregator in its own check
MaxRecords == 3
\* the benchmark deadline, in time units
DeadlineTicks == 2
\* Resolve calls made on one resolver in its own check
MaxResolves == 2
\* register requests the target handles in its own check
MaxRegisters == 4
\* icon and me requests the target handles in its own check
MaxRequests == 3
\* ResolveAttempts of the resolver of the timed phase ("default low")
BenchResolveAttempts == 3
\* bench.go:180
PretestResolveAttempts == 10
\* bench.go:227
FinalcheckResolveAttempts == 10

\* ---------------------------------------------------------------- domains
Workers == 1..NumWorkers
\* error messages a scenario may record
ErrMsgs == {"e1", "e2"}
\* alphabet of the function-level check of uniqueMsgs
Msgs == {"a", "b", "c"}
Categories == {"critical", "timeout", "application", "temporary"}
\* counter tags read by the report (bench.go:262-273) plus one revenue tag
DNSResolve == "DNSResolve"
DNSFailed == "DNSFailed"
TooSlow == "TooSlow"
TooManySpam == "TooManySpam"
Tip == "Tip"
Tags == {DNSResolve, DNSFailed, TooSlow, TooManySpam, Tip}
\* tags only Benchmark scenarios increment
BenchmarkOnlyTags == {TooSlow, TooManySpam, Tip}
ScenarioTags == {"scenario", "scenario-fail"}
\* the language the target reports (initializeResp.Language)
Languages == {"php"}

VARIABLES
    pc,             \* position of run.Action
    pretestOnly,    \* the --pretest-only flag
    exitCode,       \* -1 while running, else the exit status of run.Action
    language,       \* config.Language
    counter,        \* benchscore: tag -> count
    counterState,   \* benchscore: "uninit", "active" or "done"
    anomalies,      \* benchscore: late increments flagged
    errs,           \* bencherror: category -> ordered messages
    errState,       \* bencherror: "uninit", "active" or "done"
    disqualified,   \* bencherror: disqualification flag
    deadline,       \* benchCtx has expired
    worker,         \* benchmarker: worker -> "new", "ready", "inflight", "stopped"
    scenarioCounter,\* benchmarker: scenario tag -> count
    pretestErr,     \* what scenario.Pretest returned: "none" (not yet), "nil", "err"
    benchErr,       \* what benchmarker.run returned
    finalErr,       \* what scenario.FinalcheckScenario returned
    stdout,         \* records printed by dumpFailedResult
    resultFile,     \* records written to config.ResultPath
    emittedLog,     \* history: every record emitted, with the errors recorded by then
    report,         \* locals of the report section (benchErrors, msgs, profit, ...)
    phaseLog,       \* history: phases started, in order
    scenarioStarts, \* history: scenario executions started so far
    recorded,       \* history: every message handed to bencherror
    reads,          \* history: counter reads of the report, with the registry state
    doneSnapshot,   \* history: the counters when DoneCounter was called
    lateIncrements, \* history: increments issued after DoneCounter
    upc,            \* function-level check of uniqueMsgs: "off", "input", "once", "twice"
    msgsIn,         \* its input
    msgsOut,        \* uniqueMsgs(msgsIn)
    msgsOut2,       \* uniqueMsgs(msgsOut)
    clock,          \* timed run: time units elapsed in the Benchmark phase
    instant,        \* timed run: every scenario succeeds at once
    rpc,            \* resolver check: "off", "config", "idle", "looking", "resolved"
    rphase,         \* resolver check: the phase the resolver is made for
    resolveAttempts,\* resolver: the ResolveAttempts field
    lookups,        \* resolver: outcomes of the lookups of the Resolve under way
    rBase,          \* resolver check: the counters when Resolve was called
    rResult,        \* resolver: "none", "ok" or "fail", what Resolve returned
    resolves,       \* resolver check: Resolve calls made
    cpc,            \* client check: "off", "call", "returned", "read", "failed", "panic"
    cin,            \* client check: what the request to /api/initialize meets
    cret,           \* client check: what Client.Initialize returned
    users,          \* target: names of the committed rows of users
    themes,         \* target: names of the users whose themes row is committed
    dns,            \* target: names with a record in the zone u.isucon.dev
    regCount,       \* target check: register requests handled
    regName,        \* target check: the name of the last register request
    regStatus,      \* target check: the status of its response, 0 before the first
    tx,             \* target: the transaction when the last handler returned or threw:
                    \* "none", "open" or "committed"
    icons,          \* target: user -> the committed rows of icons, oldest first
    hLast,          \* target check: the handler of the last request
    hUser,          \* target check: the user the last request was about
    hStatus,        \* target check: the status of its response, 0 before the first
    hBody,          \* target check: the image in the response of getIconHandler
    hCount,         \* target check: icon and me requests handled
    ipc,            \* concurrent Increment check: "off", "init", "calling", "done"
    incDone         \* caller -> Increment calls it has made

runVars == <<pc, pretestOnly, exitCode, language, counter, counterState, anomalies,
             errs, errState, disqualified, deadline, worker, scenarioCounter,
             pretestErr, benchErr, finalErr, stdout, resultFile, emittedLog, report,
             phaseLog, scenarioStarts, recorded, reads, doneSnapshot, lateIncrements>>
uniqVars == <<upc, msgsIn, msgsOut, msgsOut2>>
incrVars == <<ipc, incDone>>
timedVars == <<clock, instant>>
resolveVars == <<rpc, rphase, resolveAttempts, lookups, rBase, rResult, resolves>>
clientVars == <<cpc, cin, cret>>
registerVars == <<users, themes, dns, regCount, regName, regStatus>>
handlerVars == <<tx, icons, hLast, hUser, hStatus, hBody, hCount>>
extraVars == <<incrVars, timedVars, resolveVars, clientVars, registerVars, handlerVars>>
idleIncr == <<uniqVars, timedVars, resolveVars, clientVars, registerVars, handlerVars>>
idleTimed == <<uniqVars, incrVars, resolveVars, clientVars, registerVars, handlerVars>>
idleResolve == <<uniqVars, incrVars, timedVars, clientVars, registerVars, handlerVars>>
idleClient == <<uniqVars, incrVars, timedVars, resolveVars, registerVars, handlerVars>>
idleRegister == <<uniqVars, incrVars, timedVars, resolveVars, clientVars>>
otherVars == <<uniqVars, extraVars>>
vars == <<runVars, uniqVars, extraVars>>

\* ---------------------------------------------------------------- uniqueMsgs
\* bench.go:40-50. The loop over msgs, with the set dedup and the result slice.
RECURSIVE uniqueLoop(_, _, _, _)
uniqueLoop(msgs, i, dedup, uniqMsgs) ==
    IF i > Len(msgs) THEN uniqMsgs
    ELSE IF msgs[i] \in dedup
         THEN uniqueLoop(msgs, i + 1, dedup, uniqMsgs)
         ELSE uniqueLoop(msgs, i + 1, dedup \cup {msgs[i]}, Append(uniqMsgs, msgs[i]))

\* a dedup that forgets to skip: only adjacent repeats are dropped
uniqueMsgsAdjacent(msgs) ==
    LET keep == {i \in 1..Len(msgs) : i = 1 \/ msgs[i] # msgs[i - 1]}
        RECURSIVE pick(_)
        pick(i) == IF i > Len(msgs) THEN <<>>
                   ELSE IF i \in keep THEN <<msgs[i]>> \o pick(i + 1) ELSE pick(i + 1)
    IN pick(1)

uniqueMsgs(msgs) == uniqueLoop(msgs, 1, {}, <<>>)

\* ---------------------------------------------------------------- records
Last(s) == s[Len(s)]

BenchResult(pass, score, messages, lang) ==
    [pass |-> pass, score |-> score, messages |-> messages, language |-> lang]

\* bench.go:52-69. json.Marshal of a BenchResult cannot fail, so the record printed
\* is always the marshalled one; the fallback literal of line 63 has the same pass
\* and score.
dumpFailedResult(msgs) == Append(stdout, BenchResult(FALSE, 0, msgs, language))

Emission(sink, rec) == [sink |-> sink, rec |-> rec, recorded |-> recorded, errs |-> errs]

\* a call of dumpFailedResult
DumpFailed(msgs) ==
    /\ stdout' = dumpFailedResult(msgs)
    /\ emittedLog' = Append(emittedLog, Emission("stdout", Last(stdout')))

\* ---------------------------------------------------------------- benchscore
ZeroCounter == [t \in Tags |-> 0]

\* InitCounter: resets all counters to zero; fails (leaving the registry as it
\* is) when the registry is already active. bench.go:187 and :205 ignore the
\* outcome.
InitCounterFails == counterState = "active"
InitCounter ==
    /\ counter' = IF InitCounterFails THEN counter ELSE ZeroCounter
    /\ counterState' = "active"

\* an Increment that is still counted after Done()
IncrementIgnoringDone(cnt, tag) == [cnt EXCEPT ![tag] = @ + 1]

\* Increment(tag, 1): counted while the registry is active, discarded after Done()
Increment(cnt, tag) ==
    IF counterState = "active" THEN [cnt EXCEPT ![tag] = @ + 1] ELSE cnt

RECURSIVE IncrementAll(_, _)
IncrementAll(cnt, tags) ==
    IF tags = <<>> THEN cnt
    ELSE IncrementAll(Increment(cnt, Head(tags)), Tail(tags))

\* the counter-side effect of a scenario that issues the increments `tags`
Count(tags) ==
    /\ counter' = IncrementAll(counter, tags)
    /\ anomalies' = IF counterState = "active" THEN anomalies ELSE anomalies + Len(tags)
    /\ lateIncrements' = IF counterState = "done" THEN lateIncrements + Len(tags)
                         ELSE lateIncrements

GetByTag(tag) == counter[tag]
\* sum of weight * count over the revenue tags; Tip is the one revenue tag, weight 1
GetTotalProfit == counter[Tip]

\* DoneCounter: stop accepting increments
DoneCounter ==
    /\ counterState' = "done"
    /\ doneSnapshot' = counter

\* ---------------------------------------------------------------- bencherror
NoErrors == [c \in Categories |-> <<>>]

InitErrors ==
    /\ errs' = NoErrors
    /\ disqualified' = FALSE
    /\ errState' = "active"

\* Record(err) for the errors `es` (a sequence of [cat, msg]) of one scenario:
\* appended to the category's list while active; the flag is set when the
\* critical count reaches the threshold.
RECURSIVE RecordAll(_, _)
RecordAll(e, es) ==
    IF es = <<>> THEN e
    ELSE RecordAll([e EXCEPT ![Head(es).cat] = Append(@, Head(es).msg)], Tail(es))

\* a Record whose threshold test is off by one
RecordOffByOne(es) ==
    /\ errs' = IF errState = "active" THEN RecordAll(errs, es) ELSE errs
    /\ disqualified' = IF errState = "active"
                       THEN disqualified \/ Len(RecordAll(errs, es)["critical"]) > CriticalThreshold
                       ELSE disqualified
    /\ recorded' = recorded \cup {es[i].msg : i \in DOMAIN es}

Record(es) ==
    /\ errs' = IF errState = "active" THEN RecordAll(errs, es) ELSE errs
    /\ disqualified' = IF errState = "active"
                       THEN disqualified \/ Len(RecordAll(errs, es)["critical"]) >= CriticalThreshold
                       ELSE disqualified
    /\ recorded' = recorded \cup {es[i].msg : i \in DOMAIN es}

\* GetFinalErrorMessages returns a map category -> messages; the caller's range
\* over it (bench.go:237) visits the categories in an order the runtime picks.
\* Categories without messages add nothing, so the orders of the others are enough.
Recorded == {c \in Categories : errs[c] # <<>>}
CategoryOrders ==
    {o \in [1..Cardinality(Recorded) -> Recorded] :
        \A i, j \in DOMAIN o : i # j => o[i] # o[j]}

RECURSIVE Flatten(_, _)
Flatten(order, i) ==
    IF i > Len(order) THEN <<>> ELSE errs[order[i]] \o Flatten(order, i + 1)

\* ---------------------------------------------------------------- scenarios
\* What one scenario execution does: its DNS resolution and its result.
NoErr == [cat |-> "none", msg |-> "none"]
Success == [dns |-> "ok", result |-> "ok", err |-> NoErr]
Failures(cats, dnss) ==
    {[dns |-> d, result |-> "fail", err |-> [cat |-> c, msg |-> m]] :
        d \in dnss, c \in cats, m \in ErrMsgs}
\* Pretest and Finalcheck assert DNS correctness: a failed resolution is critical
CheckOutcomes ==
    {Success} \cup Failures(Categories, {"ok"}) \cup Failures({"critical"}, {"failed"})
\* a Benchmark iteration may also trip backpressure
Backpressure ==
    {[dns |-> "ok", result |-> r, err |-> NoErr] : r \in {"tooSlow", "tooManySpam"}}
\* in the timed phase a failed resolution is not fatal: a temporary error
BenchOutcomes ==
    {Success} \cup Failures(Categories, {"ok"}) \cup Failures({"temporary"}, {"failed"})
        \cup Backpressure

DnsTags(o) == IF o.dns = "ok" THEN <<DNSResolve>> ELSE <<DNSFailed>>
ResultTags(o) ==
    CASE o.result = "ok" -> <<Tip>>
      [] o.result = "tooSlow" -> <<TooSlow>>
      [] o.result = "tooManySpam" -> <<TooManySpam>>
      [] OTHER -> <<>>
ErrorsOf(o) == IF o.result = "fail" THEN <<o.err>> ELSE <<>>
IsCritical(o) == o.result = "fail" /\ o.err.cat = "critical"

\* ---------------------------------------------------------------- run.Action
RunStart(p) ==
    /\ pc = p
    /\ pretestOnly \in BOOLEAN
    /\ exitCode = -1
    /\ language = ""
    /\ counter = ZeroCounter
    /\ counterState = "uninit"
    /\ anomalies = 0
    /\ errs = NoErrors
    /\ errState = "uninit"
    /\ disqualified = FALSE
    /\ deadline = FALSE
    /\ worker = [w \in Workers |-> "new"]
    /\ scenarioCounter = [t \in ScenarioTags |-> 0]
    /\ pretestErr = "none"
    /\ benchErr = "none"
    /\ finalErr = "none"
    /\ stdout = <<>>
    /\ resultFile = <<>>
    /\ emittedLog = <<>>
    /\ report = [benchErrors |-> <<>>, msgs |-> <<>>, profit |-> 0,
                 numResolves |-> 0, numDNSFailed |-> 0]
    /\ phaseLog = <<>>
    /\ scenarioStarts = 0
    /\ recorded = {}
    /\ reads = {}
    /\ doneSnapshot = ZeroCounter
    /\ lateIncrements = 0

UniqOff ==
    /\ upc = "off"
    /\ msgsIn = <<>>
    /\ msgsOut = <<>>
    /\ msgsOut2 = <<>>

IncrOff ==
    /\ ipc = "off"
    /\ incDone = <<>>

TimedOff ==
    /\ clock = 0
    /\ instant = FALSE

ResolveOff ==
    /\ rpc = "off"
    /\ rphase = "none"
    /\ resolveAttempts = 0
    /\ lookups = <<>>
    /\ rBase = ZeroCounter
    /\ rResult = "none"
    /\ resolves = 0

\* ---------------------------------------------------------------- Client.Initialize
\* bench.go:305-307, a *InitializeResponse: nil, or a pointer to the struct
NilResponse == [isNil |-> TRUE, Language |-> ""]
Response(lang) == [isNil |-> FALSE, Language |-> lang]

\* response bodies: an object with its language, the literal null, an object
\* whose language is not a string, and bytes that are no JSON value
Bodies == {"object", "null", "typeError", "garbage"}
Statuses == {200, 404, 500}
InitInputs ==
    [request : BOOLEAN, do : BOOLEAN, status : Statuses, body : Bodies, language : Languages]

\* json.NewDecoder(resp.Body).Decode(&initializeResp), initializeResp a nil
\* pointer: the pointer it leaves and the error it returns
Decode(in) ==
    CASE in.body = "object" -> [ptr |-> Response(in.language), err |-> "nil"]
      [] in.body = "null" -> [ptr |-> NilResponse, err |-> "nil"]
      [] in.body = "typeError" -> [ptr |-> Response(""), err |-> "decode"]
      [] OTHER -> [ptr |-> NilResponse, err |-> "decode"]

\* bench.go:309-334. body is the state of resp.Body at the return: "none" when
\* no response was obtained, "open" or "closed" (drained and closed by the defer
\* of 323-326). The test of line 329 reads err of line 316, not Decode's.
ClientInitialize(in) ==
    IF ~in.request
    THEN [resp |-> NilResponse, err |-> "request", body |-> "none"]
    ELSE IF ~in.do
    THEN [resp |-> NilResponse, err |-> "do", body |-> "none"]
    ELSE IF in.status # 200
    THEN [resp |-> NilResponse, err |-> "status", body |-> "open"]
    ELSE LET err == "nil"
             decoded == Decode(in)
         IN  IF err # "nil"
             THEN [resp |-> NilResponse, err |-> "decode", body |-> "closed"]
             ELSE [resp |-> decoded.ptr, err |-> "nil", body |-> "closed"]

ClientOff ==
    /\ cpc = "off"
    /\ cin = <<>>
    /\ cret = <<>>

RegisterOff ==
    /\ users = {}
    /\ themes = {}
    /\ dns = {}
    /\ regCount = 0
    /\ regName = ""
    /\ regStatus = 0

HandlerOff ==
    /\ tx = "none"
    /\ icons = [n \in {"pipe", "alice", "bob"} |-> <<>>]
    /\ hLast = ""
    /\ hUser = ""
    /\ hStatus = 0
    /\ hBody = ""
    /\ hCount = 0

ExtraOff == IncrOff /\ TimedOff /\ ResolveOff /\ ClientOff /\ RegisterOff /\ HandlerOff

Init == RunStart("newClient") /\ UniqOff /\ ExtraOff

\* return cli.NewExitError(err, 1) / return nil
Exit(code) ==
    /\ pc' = "exit"
    /\ exitCode' = code

benchscoreVars == <<counter, counterState, anomalies, doneSnapshot, lateIncrements>>
bencherrorVars == <<errs, errState, disqualified, recorded>>
benchmarkerVars == <<deadline, worker, scenarioCounter>>
resultVars == <<pretestErr, benchErr, finalErr>>

\* bench.go:158-165
NewClient ==
    /\ pc = "newClient"
    /\ \E ok \in BOOLEAN :
        IF ok
        THEN /\ pc' = "initialize"
             /\ UNCHANGED <<exitCode, stdout, emittedLog>>
        ELSE /\ DumpFailed(<<"webapp init client creation failed">>)
             /\ Exit(1)
    /\ UNCHANGED <<pretestOnly, language, benchscoreVars, bencherrorVars, benchmarkerVars,
                   resultVars, resultFile, report, phaseLog, scenarioStarts, reads, otherVars>>

\* bench.go:171-176. Client.Initialize returns a response with a language, or an error.
Initialize ==
    /\ pc = "initialize"
    /\ phaseLog' = Append(phaseLog, "Initialize")
    /\ \E in \in InitInputs :
        LET r == ClientInitialize(in)
        IN  IF r.err # "nil"
            THEN /\ DumpFailed(<<"initialize failed">>)
                 /\ Exit(1)
                 /\ UNCHANGED language
            ELSE IF r.resp.isNil
            THEN \* line 176 dereferences nil: the process panics, exit status 2
                 /\ Exit(2)
                 /\ UNCHANGED <<language, stdout, emittedLog>>
            ELSE /\ language' = r.resp.Language
                 /\ pc' = "pretestInit"
                 /\ UNCHANGED <<exitCode, stdout, emittedLog>>
    /\ UNCHANGED <<pretestOnly, benchscoreVars, bencherrorVars, benchmarkerVars,
                   resultVars, resultFile, report, scenarioStarts, reads, otherVars>>

\* bench.go:178-188. The err test of line 181 reads the nil err of line 172.
PretestInit ==
    /\ pc = "pretestInit"
    /\ InitCounter
    /\ InitErrors
    /\ pc' = "pretest"
    /\ UNCHANGED <<pretestOnly, exitCode, language, anomalies, doneSnapshot, lateIncrements,
                   recorded, benchmarkerVars, resultVars, stdout, emittedLog, resultFile, report,
                   phaseLog, scenarioStarts, reads, otherVars>>

\* scenario.Pretest (called at bench.go:189): one pass of the pretest scenario;
\* it returns an error exactly when the scenario hit a critical error.
Pretest ==
    /\ pc = "pretest"
    /\ phaseLog' = Append(phaseLog, "Pretest")
    /\ scenarioStarts' = scenarioStarts + 1
    /\ \E o \in CheckOutcomes :
        /\ Count(DnsTags(o))
        /\ Record(ErrorsOf(o))
        /\ pretestErr' = IF IsCritical(o) THEN "err" ELSE "nil"
    /\ pc' = "pretestReturned"
    /\ UNCHANGED <<pretestOnly, exitCode, language, counterState, doneSnapshot, errState,
                   benchmarkerVars, benchErr, finalErr, stdout, emittedLog, resultFile, report,
                   reads, otherVars>>

\* the error branch of line 189 without its return
AfterPretestNoReturn ==
    /\ pc = "pretestReturned"
    /\ IF pretestErr = "err"
       THEN /\ DumpFailed(<<"pretest failed">>)
            /\ pc' = "benchInit"
            /\ UNCHANGED exitCode
       ELSE IF pretestOnly
            THEN /\ Exit(0)
                 /\ UNCHANGED <<stdout, emittedLog>>
            ELSE /\ pc' = "benchInit"
                 /\ UNCHANGED <<exitCode, stdout, emittedLog>>
    /\ UNCHANGED <<pretestOnly, language, benchscoreVars, bencherrorVars, benchmarkerVars,
                   resultVars, resultFile, report, phaseLog, scenarioStarts, reads, otherVars>>

\* bench.go:189-199
AfterPretest ==
    /\ pc = "pretestReturned"
    /\ IF pretestErr = "err"
       THEN /\ DumpFailed(<<"pretest failed">>)
            /\ Exit(1)
       ELSE IF pretestOnly
            THEN /\ Exit(0)
                 /\ UNCHANGED <<stdout, emittedLog>>
            ELSE /\ pc' = "benchInit"
                 /\ UNCHANGED <<exitCode, stdout, emittedLog>>
    /\ UNCHANGED <<pretestOnly, language, benchscoreVars, bencherrorVars, benchmarkerVars,
                   resultVars, resultFile, report, phaseLog, scenarioStarts, reads, otherVars>>

\* iterations the workers have started (Pretest is the one start before them)
BenchIters == scenarioStarts - 1

\* bench.go:201-212, up to the workers benchmarker.run starts
BenchInit ==
    /\ pc = "benchInit"
    /\ InitCounter
    /\ InitErrors
    /\ phaseLog' = Append(phaseLog, "Benchmark")
    /\ worker' = [w \in Workers |-> "ready"]
    /\ pc' = "benchRun"
    /\ UNCHANGED <<pretestOnly, exitCode, language, anomalies, doneSnapshot, lateIncrements,
                   recorded, deadline, scenarioCounter, resultVars, stdout, emittedLog, resultFile,
                   report, scenarioStarts, reads, otherVars>>

\* benchCtx (bench.go:208) times out
DeadlineExpire ==
    /\ pc = "benchRun"
    /\ ~deadline
    /\ deadline' = TRUE
    /\ UNCHANGED <<pc, pretestOnly, exitCode, language, benchscoreVars, bencherrorVars,
                   worker, scenarioCounter, resultVars, stdout, emittedLog, resultFile, report,
                   phaseLog, scenarioStarts, reads, otherVars>>

\* a loop head that starts the next scenario without looking at the context
WorkerStartNoCancel(w) ==
    /\ pc # "exit"
    /\ worker[w] = "ready"
    /\ BenchIters < MaxRuns
    /\ worker' = [worker EXCEPT ![w] = "inflight"]
    /\ scenarioStarts' = scenarioStarts + 1
    /\ UNCHANGED <<pc, pretestOnly, exitCode, language, benchscoreVars, bencherrorVars,
                   deadline, scenarioCounter, resultVars, stdout, emittedLog, resultFile, report,
                   phaseLog, reads, otherVars>>

\* a worker's loop head: cooperative cancellation, else the next scenario starts
WorkerStart(w) ==
    /\ pc # "exit"
    /\ worker[w] = "ready"
    /\ ~deadline /\ ~disqualified
    /\ BenchIters < MaxRuns
    /\ worker' = [worker EXCEPT ![w] = "inflight"]
    /\ scenarioStarts' = scenarioStarts + 1
    /\ UNCHANGED <<pc, pretestOnly, exitCode, language, benchscoreVars, bencherrorVars,
                   deadline, scenarioCounter, resultVars, stdout, emittedLog, resultFile, report,
                   phaseLog, reads, otherVars>>

WorkerStop(w) ==
    /\ pc # "exit"
    /\ worker[w] = "ready"
    /\ deadline \/ disqualified
    /\ worker' = [worker EXCEPT ![w] = "stopped"]
    /\ UNCHANGED <<pc, pretestOnly, exitCode, language, benchscoreVars, bencherrorVars,
                   deadline, scenarioCounter, resultVars, stdout, emittedLog, resultFile, report,
                   phaseLog, scenarioStarts, reads, otherVars>>

\* the scenario in flight ends: counters and errors are updated; a backpressure
\* trip ends the worker
FinishWith(w, outcomes) ==
    /\ pc # "exit"
    /\ worker[w] = "inflight"
    /\ \E o \in outcomes :
        /\ Count(DnsTags(o) \o ResultTags(o))
        /\ Record(ErrorsOf(o))
        /\ scenarioCounter' =
             [scenarioCounter EXCEPT ![IF o.result = "fail" THEN "scenario-fail"
                                       ELSE "scenario"] = @ + 1]
        /\ worker' = [worker EXCEPT ![w] = IF o \in Backpressure THEN "stopped" ELSE "ready"]
    /\ UNCHANGED <<pc, pretestOnly, exitCode, language, counterState, doneSnapshot, errState,
                   deadline, resultVars, stdout, emittedLog, resultFile, report, phaseLog,
                   scenarioStarts, reads, otherVars>>

WorkerFinish(w) == FinishWith(w, BenchOutcomes)

\* benchmarker.run returns: on the deadline, on disqualification (with an error),
\* or when no worker is left
RunReturns == deadline \/ disqualified \/ \A w \in Workers : worker[w] = "stopped"

\* lines 212-216 running on into Finalcheck, the Done() calls of 221-222 left out
BenchReturnToFinalcheck ==
    /\ pc = "benchRun"
    /\ RunReturns
    /\ benchErr' = IF disqualified THEN "err" ELSE "nil"
    /\ IF disqualified THEN DumpFailed(<<>>) ELSE UNCHANGED <<stdout, emittedLog>>
    /\ pc' = "finalcheck"
    /\ UNCHANGED <<pretestOnly, exitCode, language, benchscoreVars, bencherrorVars,
                   benchmarkerVars, pretestErr, finalErr, resultFile, report, phaseLog,
                   scenarioStarts, reads, otherVars>>

\* bench.go:212-216
BenchReturn ==
    /\ pc = "benchRun"
    /\ RunReturns
    /\ benchErr' = IF disqualified THEN "err" ELSE "nil"
    /\ IF disqualified THEN DumpFailed(<<>>) ELSE UNCHANGED <<stdout, emittedLog>>
    /\ pc' = "done"
    /\ UNCHANGED <<pretestOnly, exitCode, language, benchscoreVars, bencherrorVars,
                   benchmarkerVars, pretestErr, finalErr, resultFile, report, phaseLog,
                   scenarioStarts, reads, otherVars>>

\* lines 218-223 without the DoneCounter call
DoneStepNoDoneCounter ==
    /\ pc = "done"
    /\ errState' = "done"
    /\ pc' = "finalcheck"
    /\ UNCHANGED <<pretestOnly, exitCode, language, benchscoreVars, errs, disqualified,
                   recorded, benchmarkerVars, resultVars, stdout, emittedLog, resultFile, report,
                   phaseLog, scenarioStarts, reads, otherVars>>

\* bench.go:218-223
DoneStep ==
    /\ pc = "done"
    /\ DoneCounter
    /\ errState' = "done"
    /\ pc' = "finalcheck"
    /\ UNCHANGED <<pretestOnly, exitCode, language, counter, anomalies, lateIncrements,
                   errs, disqualified, recorded, benchmarkerVars, resultVars, stdout, emittedLog,
                   resultFile, report, phaseLog, scenarioStarts, reads, otherVars>>

\* scenario.FinalcheckScenario (called at bench.go:228)
Finalcheck ==
    /\ pc = "finalcheck"
    /\ phaseLog' = Append(phaseLog, "Finalcheck")
    /\ scenarioStarts' = scenarioStarts + 1
    /\ \E o \in CheckOutcomes :
        /\ Count(DnsTags(o))
        /\ Record(ErrorsOf(o))
        /\ finalErr' = IF IsCritical(o) THEN "err" ELSE "nil"
    /\ pc' = "finalReturned"
    /\ UNCHANGED <<pretestOnly, exitCode, language, counterState, doneSnapshot, errState,
                   benchmarkerVars, pretestErr, benchErr, stdout, emittedLog, resultFile, report,
                   reads, otherVars>>

\* the error branch of line 228 without its return
AfterFinalcheckNoReturn ==
    /\ pc = "finalReturned"
    /\ IF finalErr = "err" THEN DumpFailed(<<>>) ELSE UNCHANGED <<stdout, emittedLog>>
    /\ pc' = "report"
    /\ UNCHANGED <<pretestOnly, exitCode, language, benchscoreVars, bencherrorVars,
                   benchmarkerVars, resultVars, resultFile, report, phaseLog,
                   scenarioStarts, reads, otherVars>>

\* bench.go:228-232
AfterFinalcheck ==
    /\ pc = "finalReturned"
    /\ IF finalErr = "err"
       THEN /\ DumpFailed(<<>>)
            /\ Exit(1)
       ELSE /\ pc' = "report"
            /\ UNCHANGED <<exitCode, stdout, emittedLog>>
    /\ UNCHANGED <<pretestOnly, language, benchscoreVars, bencherrorVars, benchmarkerVars,
                   resultVars, resultFile, report, phaseLog, scenarioStarts, reads, otherVars>>

\* fmt.Sprintf of bench.go:269 and :274
ResolvesMsg(n) == "resolved: " \o ToString(n)
ProfitMsg(n) == "profit: " \o ToString(n)

\* a worker whose increment the registry would still count
WorkersCanIncrement ==
    counterState = "active" /\ \E w \in Workers : worker[w] \in {"ready", "inflight"}

Read(op) == [op |-> op, state |-> counterState, live |-> WorkersCanIncrement]

\* bench.go:235-275
Report ==
    /\ pc = "report"
    /\ phaseLog' = Append(phaseLog, "Report")
    /\ \E order \in CategoryOrders :
        report' = [benchErrors |-> uniqueMsgs(Flatten(order, 1)),
                   msgs |-> <<ResolvesMsg(GetByTag(DNSResolve)), ProfitMsg(GetTotalProfit)>>,
                   profit |-> GetTotalProfit,
                   numResolves |-> GetByTag(DNSResolve),
                   numDNSFailed |-> GetByTag(DNSFailed)]
    /\ reads' = reads \cup {Read("ScenarioCounter"), Read("GetByTag"), Read("GetTotalProfit")}
    /\ pc' = "write"
    /\ UNCHANGED <<pretestOnly, exitCode, language, benchscoreVars, bencherrorVars,
                   benchmarkerVars, resultVars, stdout, emittedLog, resultFile, scenarioStarts, otherVars>>

\* bench.go:277-291. json.Marshal of a BenchResult cannot fail; os.WriteFile can.
WriteResult ==
    /\ pc = "write"
    /\ \E written \in BOOLEAN :
        IF written
        THEN /\ resultFile' = Append(resultFile,
                    BenchResult(TRUE, report.profit, report.benchErrors \o report.msgs, language))
             /\ emittedLog' = Append(emittedLog, Emission("file", Last(resultFile')))
             /\ Exit(0)
        ELSE /\ Exit(1)
             /\ UNCHANGED <<resultFile, emittedLog>>
    /\ UNCHANGED <<pretestOnly, language, benchscoreVars, bencherrorVars, benchmarkerVars,
                   resultVars, stdout, report, phaseLog, scenarioStarts, reads, otherVars>>

Next ==
    \/ NewClient
    \/ Initialize
    \/ PretestInit
    \/ Pretest
    \/ AfterPretest
    \/ BenchInit
    \/ DeadlineExpire
    \/ \E w \in Workers : WorkerStart(w)
    \/ \E w \in Workers : WorkerStop(w)
    \/ \E w \in Workers : WorkerFinish(w)
    \/ BenchReturn
    \/ DoneStep
    \/ Finalcheck
    \/ AfterFinalcheck
    \/ Report
    \/ WriteResult

Spec == Init /\ [][Next]_vars

\* ---------------------------------------------------------------- uniqueMsgs, alone
SeqsUpTo(S, n) == UNION {[1..k -> S] : k \in 0..n}

InitUnique ==
    /\ RunStart("off")
    /\ pretestOnly = FALSE
    /\ ExtraOff
    /\ upc = "input"
    /\ msgsIn \in SeqsUpTo(Msgs, MaxLen)
    /\ msgsOut = <<>>
    /\ msgsOut2 = <<>>

ApplyUnique ==
    /\ upc = "input"
    /\ msgsOut' = uniqueMsgs(msgsIn)
    /\ upc' = "once"
    /\ UNCHANGED <<runVars, extraVars, msgsIn, msgsOut2>>

ApplyUniqueAgain ==
    /\ upc = "once"
    /\ msgsOut2' = uniqueMsgs(msgsOut)
    /\ upc' = "twice"
    /\ UNCHANGED <<runVars, extraVars, msgsIn, msgsOut>>

NextUnique ==
    \/ ApplyUnique
    \/ ApplyUniqueAgain

SpecUnique == InitUnique /\ [][NextUnique]_vars

\* ---------------------------------------------------------------- Increment, concurrently
\* N callers, each calling Increment(Tip, 1) M times on an active registry, in any
\* interleaving; Done() once all calls are made.
Callers == 1..IncCallers

\* every variable of the run but the registry's
runButCounter == <<pc, pretestOnly, exitCode, language, anomalies, errs, errState,
                   disqualified, deadline, worker, scenarioCounter, pretestErr, benchErr,
                   finalErr, stdout, resultFile, emittedLog, report, phaseLog,
                   scenarioStarts, recorded, reads, lateIncrements>>

InitIncr ==
    /\ RunStart("off")
    /\ pretestOnly = FALSE
    /\ UniqOff
    /\ TimedOff
    /\ ResolveOff
    /\ ClientOff
    /\ RegisterOff
    /\ HandlerOff
    /\ ipc = "init"
    /\ incDone = [c \in Callers |-> 0]

IncrInit ==
    /\ ipc = "init"
    /\ InitCounter
    /\ ipc' = "calling"
    /\ UNCHANGED <<runButCounter, doneSnapshot, idleIncr, incDone>>

\* an Increment that stores the caller's own tally instead of adding to the count
IncrementCallStore(c) ==
    /\ ipc = "calling"
    /\ incDone[c] < IncPerCaller
    /\ counter' = [counter EXCEPT ![Tip] = incDone[c] + 1]
    /\ incDone' = [incDone EXCEPT ![c] = @ + 1]
    /\ UNCHANGED <<runButCounter, counterState, doneSnapshot, idleIncr, ipc>>

\* one call of Increment(Tip, 1): the addition is atomic
IncrementCall(c) ==
    /\ ipc = "calling"
    /\ incDone[c] < IncPerCaller
    /\ counter' = Increment(counter, Tip)
    /\ incDone' = [incDone EXCEPT ![c] = @ + 1]
    /\ UNCHANGED <<runButCounter, counterState, doneSnapshot, idleIncr, ipc>>

IncrDone ==
    /\ ipc = "calling"
    /\ \A c \in Callers : incDone[c] = IncPerCaller
    /\ DoneCounter
    /\ ipc' = "done"
    /\ UNCHANGED <<runButCounter, counter, idleIncr, incDone>>

NextIncr ==
    \/ IncrInit
    \/ \E c \in Callers : IncrementCall(c)
    \/ IncrDone

SpecIncr == InitIncr /\ [][NextIncr]_vars

\* ---------------------------------------------------------------- the aggregator, alone
\* Init, Record and Done of the error aggregator in any order, up to MaxRecords
\* messages on record.
runButErrors == <<pc, pretestOnly, exitCode, language, benchscoreVars, deadline, worker,
                  scenarioCounter, pretestErr, benchErr, finalErr, stdout, resultFile,
                  emittedLog, report, phaseLog, scenarioStarts, reads>>
TotalRecorded == Len(errs["critical"]) + Len(errs["timeout"]) + Len(errs["application"])
                    + Len(errs["temporary"])

InitAgg ==
    /\ RunStart("off")
    /\ pretestOnly = FALSE
    /\ UniqOff
    /\ ExtraOff

AggInit ==
    /\ pc = "off"
    /\ InitErrors
    /\ UNCHANGED <<runButErrors, recorded, otherVars>>

AggRecord ==
    /\ pc = "off"
    /\ errState # "uninit"
    /\ TotalRecorded < MaxRecords
    /\ \E c \in Categories, m \in ErrMsgs : Record(<<[cat |-> c, msg |-> m]>>)
    /\ UNCHANGED <<runButErrors, errState, otherVars>>

AggDone ==
    /\ pc = "off"
    /\ errState = "active"
    /\ errState' = "done"
    /\ UNCHANGED <<runButErrors, errs, disqualified, recorded, otherVars>>

NextAgg ==
    \/ AggInit
    \/ AggRecord
    \/ AggDone

SpecAgg == InitAgg /\ [][NextAgg]_vars

\* ---------------------------------------------------------------- the timed phase
\* The Benchmark phase against a clock: benchCtx (bench.go:208) expires
\* DeadlineTicks time units after it is made. With `instant` every scenario
\* succeeds and takes no time: the clock stands still while one is in flight,
\* and the first one is over before the first time unit is.
TimedOutcomes ==
    {Success, [dns |-> "ok", result |-> "fail", err |-> [cat |-> "critical", msg |-> "e1"]],
     [dns |-> "ok", result |-> "tooSlow", err |-> NoErr]}

\* the state run.Action is in at line 201 after a Pretest that passed
InitTimed ==
    /\ pc = "benchInit"
    /\ pretestOnly = FALSE
    /\ exitCode = -1
    /\ language \in Languages
    /\ counter = [ZeroCounter EXCEPT ![DNSResolve] = 1]
    /\ counterState = "active"
    /\ anomalies = 0
    /\ errs = NoErrors
    /\ errState = "active"
    /\ disqualified = FALSE
    /\ deadline = FALSE
    /\ worker = [w \in Workers |-> "new"]
    /\ scenarioCounter = [t \in ScenarioTags |-> 0]
    /\ pretestErr = "nil"
    /\ benchErr = "none"
    /\ finalErr = "none"
    /\ stdout = <<>>
    /\ resultFile = <<>>
    /\ emittedLog = <<>>
    /\ report = [benchErrors |-> <<>>, msgs |-> <<>>, profit |-> 0,
                 numResolves |-> 0, numDNSFailed |-> 0]
    /\ phaseLog = <<"Initialize", "Pretest">>
    /\ scenarioStarts = 1
    /\ recorded = {}
    /\ reads = {}
    /\ doneSnapshot = ZeroCounter
    /\ lateIncrements = 0
    /\ UniqOff
    /\ IncrOff
    /\ ResolveOff
    /\ ClientOff
    /\ RegisterOff
    /\ HandlerOff
    /\ clock = 0
    /\ instant \in BOOLEAN

\* a context made without a timeout: time passes, the deadline never comes
TickNoTimeout ==
    /\ pc = "benchRun"
    /\ clock < DeadlineTicks
    /\ clock' = clock + 1
    /\ UNCHANGED <<pc, pretestOnly, exitCode, language, benchscoreVars, bencherrorVars,
                   benchmarkerVars, resultVars, stdout, emittedLog, resultFile, report,
                   phaseLog, scenarioStarts, reads, instant, idleTimed>>

\* one time unit passes; context.WithTimeout (bench.go:208) expires benchCtx at
\* DeadlineTicks
Tick ==
    /\ pc = "benchRun"
    /\ ~deadline
    /\ clock < DeadlineTicks
    /\ instant => (BenchIters > 0 /\ \A w \in Workers : worker[w] # "inflight")
    /\ clock' = clock + 1
    /\ deadline' = (clock + 1 >= DeadlineTicks)
    /\ UNCHANGED <<pc, pretestOnly, exitCode, language, benchscoreVars, bencherrorVars,
                   worker, scenarioCounter, resultVars, stdout, emittedLog, resultFile, report,
                   phaseLog, scenarioStarts, reads, instant, idleTimed>>

TimedFinish(w) == FinishWith(w, IF instant THEN {Success} ELSE TimedOutcomes)

NextTimed ==
    \/ BenchInit
    \/ Tick
    \/ \E w \in Workers : WorkerStart(w)
    \/ \E w \in Workers : WorkerStop(w)
    \/ \E w \in Workers : TimedFinish(w)
    \/ BenchReturn
    \/ DoneStep

\* every goroutine is scheduled, every network call is bound to benchCtx and so
\* returns, and time passes
FairTimed ==
    /\ WF_vars(BenchInit)
    /\ WF_vars(Tick)
    /\ \A w \in Workers : WF_vars(WorkerStart(w))
    /\ \A w \in Workers : WF_vars(WorkerStop(w))
    /\ \A w \in Workers : WF_vars(TimedFinish(w))
    /\ WF_vars(BenchReturn)
    /\ WF_vars(DoneStep)

SpecTimed == InitTimed /\ [][NextTimed]_vars /\ FairTimed

\* ---------------------------------------------------------------- the resolver, alone
\* One resolver, made for one phase, and MaxResolves calls of Resolve on it; each
\* lookup succeeds or fails as the name server decides.
ResolvePhases == {"pretest", "benchmark", "finalcheck"}

InitResolve ==
    /\ RunStart("off")
    /\ pretestOnly = FALSE
    /\ UniqOff
    /\ IncrOff
    /\ TimedOff
    /\ ClientOff
    /\ RegisterOff
    /\ HandlerOff
    /\ rpc = "config"
    /\ rphase \in ResolvePhases
    /\ resolveAttempts = 0
    /\ lookups = <<>>
    /\ rBase = ZeroCounter
    /\ rResult = "none"
    /\ resolves = 0

\* resolver.NewDNSResolver() and the assignment to ResolveAttempts
\* (bench.go:179-180, 226-227), after InitCounter
NewDNSResolver ==
    /\ rpc = "config"
    /\ InitCounter
    /\ resolveAttempts' = CASE rphase = "pretest" -> PretestResolveAttempts
                             [] rphase = "finalcheck" -> FinalcheckResolveAttempts
                             [] OTHER -> BenchResolveAttempts
    /\ rpc' = "idle"
    /\ UNCHANGED <<runButCounter, doneSnapshot, rphase, lookups, rBase, rResult, resolves,
                   idleResolve>>

\* Resolve(hostname) is called
ResolveBegin ==
    /\ rpc \in {"idle", "resolved"}
    /\ resolves < MaxResolves
    /\ resolves' = resolves + 1
    /\ lookups' = <<>>
    /\ rBase' = counter
    /\ rResult' = "none"
    /\ rpc' = "looking"
    /\ UNCHANGED <<runVars, rphase, resolveAttempts, idleResolve>>

\* a retry loop that makes one lookup more than ResolveAttempts
LookupOneMore(ok) ==
    /\ rpc = "looking"
    /\ lookups' = Append(lookups, IF ok THEN "ok" ELSE "fail")
    /\ IF ok
         THEN /\ counter' = Increment(counter, DNSResolve)
              /\ rResult' = "ok"
              /\ rpc' = "resolved"
         ELSE IF Len(lookups) + 1 > resolveAttempts
         THEN /\ counter' = Increment(counter, DNSFailed)
              /\ rResult' = "fail"
              /\ rpc' = "resolved"
         ELSE UNCHANGED <<counter, rResult, rpc>>
    /\ UNCHANGED <<runButCounter, counterState, doneSnapshot, rphase, resolveAttempts, rBase,
                   resolves, idleResolve>>

\* one lookup of the Resolve under way: success ends it and counts DNSResolve,
\* the ResolveAttempts-th failure ends it and counts DNSFailed
Lookup(ok) ==
    /\ rpc = "looking"
    /\ lookups' = Append(lookups, IF ok THEN "ok" ELSE "fail")
    /\ IF ok
         THEN /\ counter' = Increment(counter, DNSResolve)
              /\ rResult' = "ok"
              /\ rpc' = "resolved"
         ELSE IF Len(lookups) + 1 >= resolveAttempts
         THEN /\ counter' = Increment(counter, DNSFailed)
              /\ rResult' = "fail"
              /\ rpc' = "resolved"
         ELSE UNCHANGED <<counter, rResult, rpc>>
    /\ UNCHANGED <<runButCounter, counterState, doneSnapshot, rphase, resolveAttempts, rBase,
                   resolves, idleResolve>>

NextResolve ==
    \/ NewDNSResolver
    \/ ResolveBegin
    \/ \E ok \in BOOLEAN : Lookup(ok)

SpecResolve == InitResolve /\ [][NextResolve]_vars

\* ---------------------------------------------------------------- the client, alone
\* One call of Client.Initialize and the caller's lines 172-176, for every
\* answer the target can give.
InitClient ==
    /\ RunStart("off")
    /\ pretestOnly = FALSE
    /\ UniqOff
    /\ IncrOff
    /\ TimedOff
    /\ ResolveOff
    /\ RegisterOff
    /\ HandlerOff
    /\ cpc = "call"
    /\ cin \in InitInputs
    /\ cret = <<>>

\* bench.go:172
ClientCall ==
    /\ cpc = "call"
    /\ cret' = ClientInitialize(cin)
    /\ cpc' = "returned"
    /\ UNCHANGED <<runVars, cin, idleClient>>

\* bench.go:173-176: the err test, then initializeResp.Language
CallerRead ==
    /\ cpc = "returned"
    /\ IF cret.err # "nil"
         THEN /\ cpc' = "failed"
              /\ DumpFailed(<<"initialize failed">>)
              /\ UNCHANGED language
         ELSE IF cret.resp.isNil
         THEN /\ cpc' = "panic"
              /\ UNCHANGED <<language, stdout, emittedLog>>
         ELSE /\ cpc' = "read"
              /\ language' = cret.resp.Language
              /\ UNCHANGED <<stdout, emittedLog>>
    /\ UNCHANGED <<pc, pretestOnly, exitCode, benchscoreVars, bencherrorVars, benchmarkerVars,
                   resultVars, resultFile, report, phaseLog, scenarioStarts, reads,
                   cin, cret, idleClient>>

NextClient ==
    \/ ClientCall
    \/ CallerRead

SpecClient == InitClient /\ [][NextClient]_vars

\* ---------------------------------------------------------------- registerHandler
\* Handler.php:193-280, one request per step. A request names a user and meets
\* its first failure at `fail`: the JSON decode, one of the two INSERTs, the
\* pdnsutil command, fillUserResponse, the commit, or none. The rows of a
\* transaction that is never committed are gone when the request ends; the
\* record added by pdnsutil is outside the transaction.
Names == {"pipe", "alice", "bob"}
FailPoints == {"none", "decode", "insertUser", "insertTheme", "addRecord", "fillUser", "commit"}

registerHandler(name, fail) ==
    /\ regCount < MaxRegisters
    /\ regCount' = regCount + 1
    /\ regName' = name
    /\ IF fail = "decode" \/ name = "pipe"
         THEN \* HttpBadRequestException, lines 195-210
              /\ regStatus' = 400
              /\ UNCHANGED <<users, themes, dns>>
         ELSE IF fail \in {"insertUser", "insertTheme", "addRecord"}
         THEN \* HttpInternalServerErrorException, lines 222-264
              /\ regStatus' = 500
              /\ UNCHANGED <<users, themes, dns>>
         ELSE IF fail \in {"fillUser", "commit"}
         THEN \* thrown at 267-277 after add-record ran at 258
              /\ regStatus' = 500
              /\ dns' = dns \cup {name}
              /\ UNCHANGED <<users, themes>>
         ELSE /\ regStatus' = 201
              /\ users' = users \cup {name}
              /\ themes' = themes \cup {name}
              /\ dns' = dns \cup {name}
    /\ UNCHANGED <<runVars, idleRegister>>

InitRegister ==
    /\ RunStart("off")
    /\ pretestOnly = FALSE
    /\ UniqOff
    /\ IncrOff
    /\ TimedOff
    /\ ResolveOff
    /\ ClientOff
    /\ RegisterOff
    /\ HandlerOff

NextRegister ==
    \E name \in Names, fail \in FailPoints :
        registerHandler(name, fail) /\ UNCHANGED handlerVars

SpecRegister == InitRegister /\ [][NextRegister]_vars

\* ---------------------------------------------------------------- the User handlers
\* Handler.php:39-280, one request per step. `tx` is the transaction of
\* $this->db when the handler returns or throws; a transaction still open then
\* is rolled back when the request ends, so only committed rows are kept.
\* A session names a user or nobody; it may outlive the user's row.
Sessions == {"alice", "bob", "nobody"}
Images == {"i1", "i2"}
FALLBACK_IMAGE == "NoImage"

HandlerFrame == <<runVars, idleRegister, registerVars>>

\* the request is counted and its handler, user and status put on record
Answer(handler, user, status) ==
    /\ hCount < MaxRequests
    /\ hCount' = hCount + 1
    /\ hLast' = handler
    /\ hUser' = user
    /\ hStatus' = status

\* Handler.php:39-90
getIconHandler(session, username, fail) ==
    /\ fail \in {"none", "selectUser", "selectIcon", "fallback"}
    /\ IF session = "nobody"
         THEN \* verifyUserSession throws, line 43
              /\ Answer("getIcon", username, 401)
              /\ tx' = "none"
              /\ hBody' = ""
         ELSE IF fail = "selectUser"
         THEN /\ Answer("getIcon", username, 500)
              /\ tx' = "open"
              /\ hBody' = ""
         ELSE IF username \notin users
         THEN /\ Answer("getIcon", username, 404)
              /\ tx' = "open"
              /\ hBody' = ""
         ELSE IF fail = "selectIcon" \/ (icons[username] = <<>> /\ fail = "fallback")
         THEN /\ Answer("getIcon", username, 500)
              /\ tx' = "open"
              /\ hBody' = ""
         ELSE \* lines 86-88: the response is returned, the transaction is not ended
              /\ Answer("getIcon", username, 200)
              /\ tx' = "open"
              /\ hBody' = IF icons[username] = <<>> THEN FALLBACK_IMAGE
                                                     ELSE icons[username][1]
    /\ UNCHANGED <<icons, HandlerFrame>>

\* Handler.php:92-143
postIconHandler(session, image, fail) ==
    /\ fail \in {"none", "decode", "delete", "insert"}
    /\ hBody' = ""
    /\ IF session = "nobody"
         THEN /\ Answer("postIcon", session, 401)
              /\ tx' = "none"
              /\ UNCHANGED icons
         ELSE IF fail = "decode"
         THEN /\ Answer("postIcon", session, 400)
              /\ tx' = "none"
              /\ UNCHANGED icons
         ELSE IF fail \in {"delete", "insert"}
         THEN /\ Answer("postIcon", session, 500)
              /\ tx' = "open"
              /\ UNCHANGED icons
         ELSE \* DELETE of the user's rows, INSERT of the new one, commit
              /\ Answer("postIcon", session, 201)
              /\ tx' = "committed"
              /\ icons' = [icons EXCEPT ![session] = <<image>>]
    /\ UNCHANGED HandlerFrame

\* Handler.php:145-187
getMeHandler(session, fail) ==
    /\ fail \in {"none", "selectUser", "fillUser"}
    /\ hBody' = ""
    /\ IF session = "nobody"
         THEN /\ Answer("getMe", session, 401)
              /\ tx' = "none"
         ELSE IF fail = "selectUser"
         THEN /\ Answer("getMe", session, 500)
              /\ tx' = "open"
         ELSE IF session \notin users
         THEN /\ Answer("getMe", session, 404)
              /\ tx' = "open"
         ELSE IF fail = "fillUser"
         THEN /\ Answer("getMe", session, 500)
              /\ tx' = "open"
         ELSE /\ Answer("getMe", session, 200)
              /\ tx' = "committed"
    /\ UNCHANGED <<icons, HandlerFrame>>

\* Handler.php:193-280 with the transaction it leaves
RegisterRequest(name, fail) ==
    /\ registerHandler(name, fail)
    /\ tx' = IF fail = "decode" \/ name = "pipe" THEN "none"
             ELSE IF fail = "none" THEN "committed"
             ELSE "open"
    /\ hLast' = "register"
    /\ hUser' = name
    /\ hStatus' = regStatus'
    /\ hBody' = ""
    /\ UNCHANGED <<icons, hCount>>

InitHandler == InitRegister

NextHandler ==
    \/ \E name \in Names, fail \in FailPoints : RegisterRequest(name, fail)
    \/ \E session \in Sessions, username \in Names,
          fail \in {"none", "selectUser", "selectIcon", "fallback"} :
            getIconHandler(session, username, fail)
    \/ \E session \in Sessions, image \in Images,
          fail \in {"none", "decode", "delete", "insert"} :
            postIconHandler(session, image, fail)
    \/ \E session \in Sessions, fail \in {"none", "selectUser", "fillUser"} :
            getMeHandler(session, fail)

SpecHandler == InitHandler /\ [][NextHandler]_vars

\* ================================================================ claims
PhaseOrder == <<"Initialize", "Pretest", "Benchmark", "Finalcheck", "Report">>
IsPrefix(s, t) == Len(s) <= Len(t) /\ \A i \in 1..Len(s) : s[i] = t[i]
Started(p) == \E i \in DOMAIN phaseLog : phaseLog[i] = p
Range(s) == {s[i] : i \in DOMAIN s}
Occurrences(s, m) == Cardinality({i \in DOMAIN s : s[i] = m})
NoRepeat(s) == \A i, j \in DOMAIN s : i # j => s[i] # s[j]
FirstIndex(s, m) == CHOOSE i \in DOMAIN s : s[i] = m /\ \A j \in 1..(i - 1) : s[j] # m
Emitted == {emittedLog[i].rec : i \in DOMAIN emittedLog}
AllFailures(s) == \A i \in DOMAIN s : s[i].pass = FALSE /\ s[i].score = 0

\* C1: the phases run in the order Initialize, Pretest, Benchmark, Finalcheck,
\* Report; Benchmark starts only after Pretest returned without error; Finalcheck
\* starts only after benchmarker.run has returned and both the counters and the
\* error aggregator have been frozen with Done(); the passing result is written
\* only after Finalcheck returned without error.
C1_PhaseOrder ==
    /\ IsPrefix(phaseLog, PhaseOrder)
    /\ Started("Benchmark") => pretestErr = "nil"
    /\ Started("Finalcheck") =>
          benchErr # "none" /\ counterState = "done" /\ errState = "done"
    /\ (\E r \in Emitted : r.pass) => Started("Report") /\ finalErr = "nil"

C1_Witness ==
    /\ pc = "exit"
    /\ phaseLog = PhaseOrder
    /\ resultFile # <<>>

\* C2: when Pretest returns an error no Benchmark worker is started, no
\* Benchmark-only tag is incremented, Finalcheck is not executed, and the one
\* result emitted has pass=false and score=0.
C2_PretestAbort ==
    pretestErr = "err" =>
        /\ \A w \in Workers : worker[w] = "new"
        /\ \A t \in BenchmarkOnlyTags : counter[t] = 0
        /\ ~Started("Benchmark") /\ ~Started("Finalcheck")
        /\ resultFile = <<>>
        /\ AllFailures(stdout)
        /\ pc = "exit" => Len(emittedLog) = 1 /\ exitCode = 1

C2_Witness ==
    /\ pc = "exit"
    /\ pretestErr = "err"
    /\ Len(stdout) = 1

\* C3: when Finalcheck returns an error no record with pass=true is emitted or
\* written, whatever the Benchmark phase scored, and the failure record emitted
\* has score=0.
C3_FinalcheckFailure ==
    finalErr = "err" =>
        /\ resultFile = <<>>
        /\ \A r \in Emitted : r.pass = FALSE /\ r.score = 0
        /\ pc = "exit" => stdout # <<>> /\ exitCode = 1

C3_Witness ==
    /\ pc = "exit"
    /\ finalErr = "err"
    /\ doneSnapshot[Tip] > 0
    /\ stdout # <<>>

\* C4: every run emits exactly one result record: never two, and none missing
\* on a path that terminates after Initialize.
C4_ExactlyOneRecord ==
    /\ Len(emittedLog) <= 1
    /\ (pc = "exit" /\ Started("Initialize")) => Len(emittedLog) = 1

\* C5: once a result record has been emitted, no scenario of any phase is
\* executed afterwards.
C5_NoScenarioAfterResult ==
    [][emittedLog # <<>> => scenarioStarts' = scenarioStarts]_vars

\* C6: when benchmarker.run returns an error (disqualification), no record with
\* pass=true is emitted or written, even when Finalcheck succeeds.
C6_DisqualifiedNeverPasses ==
    benchErr = "err" => resultFile = <<>> /\ \A r \in Emitted : r.pass = FALSE

\* C7: uniqueMsgs returns each distinct input message exactly once and nothing
\* else, ordered by first occurrence in the input; <<a,b,a,c,b>> gives <<a,b,c>>;
\* applying it twice gives what applying it once gives.
C7_UniqueMsgs ==
    /\ upc \in {"once", "twice"} =>
        /\ Range(msgsOut) = Range(msgsIn)
        /\ NoRepeat(msgsOut)
        /\ \A i, j \in DOMAIN msgsOut :
              i < j => FirstIndex(msgsIn, msgsOut[i]) < FirstIndex(msgsIn, msgsOut[j])
        /\ msgsIn = <<"a", "b", "a", "c", "b">> => msgsOut = <<"a", "b", "c">>
    /\ upc = "twice" => msgsOut2 = msgsOut

C7_Witness ==
    /\ upc = "twice"
    /\ msgsIn = <<"a", "b", "a", "c", "b">>
    /\ msgsOut = <<"a", "b", "c">>

\* C8: every emitted record, pass or fail, carries the errors recorded by then:
\* each distinct recorded message exactly once, the messages of one category in
\* their first-seen order, and no string twice.
C8_RecordsCarryErrors ==
    \A k \in DOMAIN emittedLog :
        LET e == emittedLog[k]
            m == e.rec.messages
        IN /\ \A x \in e.recorded : Occurrences(m, x) = 1
           /\ \A c \in Categories : \A i, j \in DOMAIN e.errs[c] :
                 (/\ e.errs[c][i] # e.errs[c][j]
                  /\ FirstIndex(e.errs[c], e.errs[c][i]) < FirstIndex(e.errs[c], e.errs[c][j]))
                 => /\ Occurrences(m, e.errs[c][i]) = 1
                    /\ Occurrences(m, e.errs[c][j]) = 1
                    /\ FirstIndex(m, e.errs[c][i]) < FirstIndex(m, e.errs[c][j])
           /\ NoRepeat(m)

C10_FrozenAfterDone ==
    counterState = "done" =>
        /\ counter = doneSnapshot
        /\ anomalies = lateIncrements
        /\ reads # {} =>
              /\ report.numResolves = doneSnapshot[DNSResolve]
              /\ report.numDNSFailed = doneSnapshot[DNSFailed]
              /\ report.profit = doneSnapshot[Tip]
        /\ \A r \in Emitted : r.pass => r.score = doneSnapshot[Tip]

C10_Witness ==
    /\ pc = "exit"
    /\ resultFile # <<>>
    /\ lateIncrements > 0
    /\ anomalies > 0
    /\ doneSnapshot[DNSResolve] > 0


\* C11: at the start of the Benchmark phase every counter is zero and the error
\* aggregator is empty, so nothing counted or recorded during Pretest reaches the
\* reported counters, score or messages.
C11_FreshAtBenchmark ==
    /\ (pc = "benchRun" /\ BenchIters = 0) =>
          counter = ZeroCounter /\ errs = NoErrors /\ ~disqualified
    /\ (reads # {} /\ \A t \in ScenarioTags : scenarioCounter[t] = 0) =>
          /\ report.numResolves = 0
          /\ report.numDNSFailed = 0
          /\ report.profit = 0
          /\ report.benchErrors = <<>>

\* C17: when the result record cannot be persisted (os.WriteFile fails), a record
\* with pass=false and score=0 is still emitted before the process exits.
C17_FailureIndication ==
    (pc = "exit" /\ Started("Report") /\ resultFile = <<>>) =>
        /\ stdout # <<>>
        /\ AllFailures(stdout)


\* C12: Increment loses no update: after N callers have each made M calls of
\* Increment(tag, 1) in any interleaving, GetByTag(tag) is N*M after Done(); and
\* while the registry is active the count never decreases.
C12_NoLostUpdate ==
    /\ [](ipc = "done" => GetByTag(Tip) = IncCallers * IncPerCaller)
    /\ [][(counterState = "active" /\ counterState' = "active")
            => \A t \in Tags : counter'[t] >= counter[t]]_vars

C12_Witness ==
    /\ ipc = "done"
    /\ counterState = "done"
    /\ GetByTag(Tip) = IncCallers * IncPerCaller


\* C13: the disqualification flag is set exactly when the critical errors on
\* record reach the threshold (false at threshold-1, true at the threshold-th);
\* timeout, application and temporary errors never set it; once set it stays
\* set until the aggregator is initialised again.
C13_Disqualification ==
    /\ [](errState # "uninit" =>
            (disqualified <=> Len(errs["critical"]) >= CriticalThreshold))
    /\ [][(disqualified /\ ~(errs' = NoErrors /\ errState' = "active")) => disqualified']_vars

C13_Witness ==
    /\ disqualified
    /\ Len(errs["critical"]) = CriticalThreshold
    /\ errs["timeout"] # <<>>


AllFailed(ls) == \A i \in DOMAIN ls : ls[i] = "fail"

C18_ResponseOrError ==
    /\ cpc \in {"returned", "read", "failed", "panic"} =>
          /\ cret.resp.isNil <=> cret.err # "nil"
          /\ (~cin.request \/ ~cin.do \/ cin.status # 200 \/ Decode(cin).err # "nil")
                => cret.err # "nil"
    /\ cpc # "panic"

\* C19: whenever Client.Initialize obtained a response, its body is drained and
\* closed when Initialize returns.
C19_BodyClosed ==
    (cpc \in {"returned", "read", "failed", "panic"} /\ cin.request /\ cin.do) =>
        cret.body = "closed"


\* C20: after every register request a DNS record for a name exists if and only
\* if the user and theme rows of that name are committed; a request for the name
\* 'pipe' gets a bad-request answer and creates none of the three.
C20_RegisterAtomic ==
    /\ \A n \in Names : n \in dns <=> (n \in users /\ n \in themes)
    /\ "pipe" \notin (users \cup themes \cup dns)
    /\ regName = "pipe" => regStatus = 400


\* the part of C21 about icons: a user has at most one icon row, and a
\* getIconHandler that answers 200 returns it, or the fallback image
IconRows ==
    /\ \A n \in Names : Len(icons[n]) <= 1
    /\ (hLast = "getIcon" /\ hStatus = 200) =>
          hBody = IF icons[hUser] = <<>> THEN FALLBACK_IMAGE ELSE icons[hUser][1]

\* C21: no handler of the User Handler leaves a transaction open when it returns
\* or throws; after any sequence of postIconHandler calls a user has at most one
\* icon row, which getIconHandler returns (the fallback image when there is none).
C21_TransactionsEnded ==
    /\ tx # "open"
    /\ IconRows

====
